---- MODULE Spec2Model ----
(***************************************************************************)
(* Model of api/submit-score.js: the serverless handler that validates a   *)
(* score submission, fetches the leaderboard document from the JSONBin     *)
(* store, merges the new score into it (push, sort, slice) and writes the  *)
(* document back.  Several invocations of the handler may be in flight at  *)
(* once; each one is a sequence of steps separated by its awaits.          *)
(***************************************************************************)
EXTENDS Integers, Sequences, FiniteSets, Bags, TLC

\* ---------------------------------------------------------------- bounds
NumSlots == 2      \* handler invocations that may be in flight at once
MaxArrivals == 2   \* requests that arrive in one behaviour
MaxClock == 0      \* the server clock reads 0..MaxClock
MaxSubmissions == 11  \* requests of a sequential behaviour

\* ------------------------------------------------------ program constants
TopN == 10         \* leaders.slice(0, 10)
MaxNameLen == 20   \* name.length > 20
MinShrimps == 1    \* shrimps < 1

Slots == 1..NumSlots

\* ------------------------------------------------------------- JS values
\* A JavaScript value: its typeof-like tag t, its characters or elements s
\* (strings and arrays) and its numeric value n (numbers).
Undefined == [t |-> "undefined", s |-> <<>>, n |-> 0]
StrV(chars) == [t |-> "string", s |-> chars, n |-> 0]
NumV(k) == [t |-> "number", s |-> <<>>, n |-> k]
ArrV(elems) == [t |-> "array", s |-> elems, n |-> 0]
BoolV(b) == [t |-> "boolean", s |-> <<>>, n |-> IF b THEN 1 ELSE 0]

Repeat(c, k) == [i \in 1..k |-> c]

\* ToBoolean: undefined, "", 0 and false are falsy; arrays are truthy.
Truthy(v) ==
    CASE v.t = "undefined" -> FALSE
      [] v.t = "string" -> Len(v.s) > 0
      [] v.t = "number" -> v.n # 0
      [] v.t = "boolean" -> v.n = 1
      [] OTHER -> TRUE

\* v.length for a truthy v: strings and arrays have one, numbers and
\* booleans yield undefined.
LengthOf(v) == IF v.t \in {"string", "array"} THEN NumV(Len(v.s)) ELSE Undefined

\* x > k for a number k: undefined converts to NaN and the comparison is false.
GreaterThan(x, k) == x.t = "number" /\ x.n > k

\* x < k for a number k.
LessThan(x, k) == x.t = "number" /\ x.n < k

\* ------------------------------------------------------------ validation
\* The condition of the 400 branch:
\* !name || typeof shrimps !== 'number' || shrimps < 1 || name.length > 20
InvalidScore(name, shrimps) ==
    \/ ~Truthy(name)
    \/ shrimps.t # "number"
    \/ LessThan(shrimps, MinShrimps)
    \/ GreaterThan(LengthOf(name), MaxNameLen)

\* ----------------------------------------------------------- merge policy
\* A score entry { name, shrimps, date }; date is the clock reading.
Entry(name, shrimps, date) == [name |-> name, shrimps |-> shrimps, date |-> date]

\* Variant: the comparator with its operands swapped (ascending order).
CompareAscending(a, b) == a.shrimps.n - b.shrimps.n

\* The sort comparator (a, b) => b.shrimps - a.shrimps.
Compare(a, b) == b.shrimps.n - a.shrimps.n

\* Variant: x goes in front of the elements it ties with.
InsertBeforeEqual(sorted, x) ==
    LET k == Cardinality({i \in 1..Len(sorted) : Compare(sorted[i], x) < 0})
    IN SubSeq(sorted, 1, k) \o <<x>> \o SubSeq(sorted, k + 1, Len(sorted))

\* One step of a stable sort: x goes behind every element that the
\* comparator does not place after it.
InsertSorted(sorted, x) ==
    LET k == Cardinality({i \in 1..Len(sorted) : Compare(sorted[i], x) <= 0})
    IN SubSeq(sorted, 1, k) \o <<x>> \o SubSeq(sorted, k + 1, Len(sorted))

\* The first n elements of seq, stably sorted.  (The sorted prefix is bound
\* as an element of a singleton set, so that it is computed once and not
\* once for each of its uses.)
RECURSIVE SortPrefix(_, _)
SortPrefix(seq, n) ==
    IF n = 0 THEN <<>>
    ELSE CHOOSE result \in {InsertSorted(prefix, seq[n]) :
                               prefix \in {SortPrefix(seq, n - 1)}} : TRUE

\* leaders.sort(comparator): Array.prototype.sort is stable.
SortLeaders(seq) == SortPrefix(seq, Len(seq))

\* Variant: leaders.slice(1, 10), the start index off by one.
SliceFromOne(seq) == SubSeq(seq, 2, IF Len(seq) < TopN THEN Len(seq) ELSE TopN)

\* Variant: leaders.slice(0, 9), the end index off by one.
SliceNine(seq) == SubSeq(seq, 1, IF Len(seq) < TopN - 1 THEN Len(seq) ELSE TopN - 1)

\* leaders.slice(0, 10)
SliceTop(seq) == SubSeq(seq, 1, IF Len(seq) < TopN THEN Len(seq) ELSE TopN)

\* Variant: the list is truncated before it is sorted (push, slice, sort).
MergeSliceFirst(current, incoming) == SortLeaders(SliceTop(Append(current, incoming)))

\* Variant: a full list gives up its last entry to the new one.
MergeReplaceLast(current, incoming) ==
    IF Len(current) < TopN THEN SortLeaders(Append(current, incoming))
    ELSE SortLeaders(Append(SubSeq(current, 1, TopN - 1), incoming))

\* Variant: the new entry is pushed twice.
MergePushTwice(current, incoming) ==
    SliceTop(SortLeaders(Append(Append(current, incoming), incoming)))

\* push, sort, slice
Merge(current, incoming) == SliceTop(SortLeaders(Append(current, incoming)))

\* ------------------------------------------------------- store documents
\* What a successful GET can carry: shape "leaders" is
\* { record: { leaders: [...] } }; the other shapes are a record without a
\* leaders field, a body without a record, a leaders field that is no array,
\* and a body that does not parse.
Doc(shape, list) == [shape |-> shape, leaders |-> list]
LeadersDoc(list) == Doc("leaders", list)
NoDoc == Doc("none", <<>>)

Player(c, k) == Entry(StrV(<<c>>), NumV(k), 0)

Board3 == <<Player("a", 3), Player("b", 2), Player("c", 2)>>
Board9 == <<Player("a", 3), Player("b", 3), Player("c", 3), Player("d", 2),
            Player("e", 2), Player("f", 2), Player("g", 2), Player("h", 2),
            Player("i", 2)>>
Board10 == Append(Board9, Player("j", 2))
Board11 == Append(Board10, Player("k", 1))
BoardUnsorted == <<Player("a", 1), Player("b", 3), Player("c", 2)>>

\* The documents the bin may hold before the first request.
InitialDocs ==
    {LeadersDoc(<<>>), LeadersDoc(Board3), LeadersDoc(Board9), LeadersDoc(Board10),
     LeadersDoc(Board11), LeadersDoc(BoardUnsorted),
     Doc("noLeaders", <<>>), Doc("noRecord", <<>>), Doc("leadersNotArray", <<>>),
     Doc("unparseable", <<>>)}

\* --------------------------------------------------------------- requests
Body(name, shrimps, date) ==
    [present |-> TRUE, name |-> name, shrimps |-> shrimps, date |-> date]
NoBody == [present |-> FALSE, name |-> Undefined, shrimps |-> Undefined, date |-> Undefined]
Req(method, body) == [method |-> method, body |-> body]
NoReq == Req("none", NoBody)

\* The requests the clients of the concurrent specification send.
ClientRequests ==
    {Req("POST", Body(StrV(<<"A">>), NumV(1), Undefined)),
     Req("POST", Body(StrV(<<"B">>), NumV(3), Undefined)),
     Req("POST", Body(StrV(<<>>), NumV(2), Undefined)),
     Req("POST", NoBody),
     Req("GET", Body(StrV(<<"A">>), NumV(2), Undefined))}

\* The payloads of the validation specification: every kind of name and of
\* shrimps, with and without a client-supplied date.
AnyNames ==
    {Undefined, StrV(<<>>), StrV(<<"A">>), StrV(Repeat("x", MaxNameLen)),
     StrV(Repeat("x", MaxNameLen + 1)), NumV(0), NumV(7), BoolV(TRUE), BoolV(FALSE),
     ArrV(<<"A">>), ArrV(Repeat("x", MaxNameLen + 1))}
AnyShrimps ==
    {Undefined, NumV(0 - 5), NumV(0), NumV(1), NumV(2), NumV(3), NumV(4),
     StrV(<<"5">>), BoolV(TRUE)}
AnyBodies ==
    {Body(nm, k, d) : nm \in AnyNames, k \in AnyShrimps, d \in {Undefined, NumV(9)}}
    \cup {NoBody}
AnyRequests == {Req(m, b) : m \in {"POST", "GET", "PUT"}, b \in AnyBodies}

\* -------------------------------------------------------------- responses
Response(status, body) == [status |-> status, body |-> body]
MethodNotAllowed == Response(405, "Method Not Allowed")
InvalidScoreData == Response(400, "Invalid score data.")
ReadFailed == Response(500, "Failed to retrieve current leaderboard.")
WriteFailed == Response(500, "Failed to update leaderboards.")
Unexpected == Response(500, "An unexpected error occurred.")
Success == Response(200, "Score submitted and leaderboard updated successfully.")

\* ------------------------------------------------------------------ state
VARIABLES
    store,        \* the document the bin holds
    now,          \* the last reading of the server clock
    arrivals,     \* requests received so far
    pc,           \* per slot: where the invocation stands
    req,          \* per slot: the request being handled
    getResponse,  \* per slot: what the GET returned
    fetched,      \* per slot: currentData.record.leaders || []
    newScore,     \* per slot: the entry built from the request
    leaders,      \* per slot: the list after push, sort, slice (the PUT body)
    putResponse,  \* per slot: what the PUT returned
    calls,        \* per slot: outbound calls issued by the invocation
    served,       \* per slot: outbound calls the store has answered
    sent,         \* per slot: responses sent to the caller
    secret,       \* JSONBIN_SECRET_KEY, the X-Master-Key of every call
    errorBody,    \* the body text the store gives its error responses
    submitted,    \* history: the scores that passed validation, as a bag
    storeFailed   \* history: some call to the store did not succeed

vars == <<store, now, arrivals, pc, req, getResponse, fetched, newScore, leaders,
          putResponse, calls, served, sent, secret, errorBody, submitted,
          storeFailed>>

NoEntry == Entry(Undefined, Undefined, 0)
\* What a fetch returned: how it ended, the document of a successful GET,
\* and the body text of an error response.
Result(outcome, doc, text) == [outcome |-> outcome, doc |-> doc, text |-> text]
NoResult == Result("none", NoDoc, "")

\* The body of a response of the store that is not read as JSON.
ErrorText(outcome) == IF outcome = "status" THEN errorBody ELSE ""

InitFrom(docs, keys, texts) ==
    /\ secret \in keys
    /\ errorBody \in texts
    /\ store \in docs
    /\ now = 0
    /\ arrivals = 0
    /\ pc = [r \in Slots |-> "idle"]
    /\ req = [r \in Slots |-> NoReq]
    /\ getResponse = [r \in Slots |-> NoResult]
    /\ fetched = [r \in Slots |-> <<>>]
    /\ newScore = [r \in Slots |-> NoEntry]
    /\ leaders = [r \in Slots |-> <<>>]
    /\ putResponse = [r \in Slots |-> NoResult]
    /\ calls = [r \in Slots |-> <<>>]
    /\ served = [r \in Slots |-> <<>>]
    /\ sent = [r \in Slots |-> <<>>]
    /\ submitted = EmptyBag
    /\ storeFailed = FALSE

InitWith(docs) == InitFrom(docs, {"key-1"}, {"Bin not found"})

\* The concurrent specification starts from a leaderboard document.
ConcurrentDocs == {LeadersDoc(BoardUnsorted), LeadersDoc(Board10)}

Init == InitWith(ConcurrentDocs)

InitOne == InitWith(InitialDocs)

\* ------------------------------------------------------ handler segments
\* What a segment of the handler (the code between two awaits) does: the
\* responses it sends, the outbound calls it issues, where it stops, and
\* the locals it assigns.
Outcome(pcNext, responses, issued, current, score, list) ==
    [pc |-> pcNext, sent |-> responses, calls |-> issued,
     fetched |-> current, newScore |-> score, leaders |-> list]
Answer(response) == Outcome("done", <<response>>, <<>>, <<>>, NoEntry, <<>>)

\* Variant: the GET is issued before the payload is validated.
StartFetchBeforeValidation(cr) ==
    IF cr.method # "POST" THEN Answer(MethodNotAllowed)
    ELSE IF ~cr.body.present THEN Answer(Unexpected)
    ELSE IF InvalidScore(cr.body.name, cr.body.shrimps)
    THEN Outcome("done", <<InvalidScoreData>>, <<"GET">>, <<>>, NoEntry, <<>>)
    ELSE Outcome("awaitGet", <<>>, <<"GET">>, <<>>, NoEntry, <<>>)

\* Variant: only GET is rejected as a method.
StartRejectGetOnly(cr) ==
    IF cr.method = "GET" THEN Answer(MethodNotAllowed)
    ELSE IF ~cr.body.present THEN Answer(Unexpected)
    ELSE IF InvalidScore(cr.body.name, cr.body.shrimps) THEN Answer(InvalidScoreData)
    ELSE Outcome("awaitGet", <<>>, <<"GET">>, <<>>, NoEntry, <<>>)

\* From the call of handler(req, res) to the first await: method check,
\* destructuring of req.body inside the try, validation, GET issued.
Start(cr) ==
    IF cr.method # "POST" THEN Answer(MethodNotAllowed)
    ELSE IF ~cr.body.present THEN Answer(Unexpected)
    ELSE IF InvalidScore(cr.body.name, cr.body.shrimps) THEN Answer(InvalidScoreData)
    ELSE Outcome("awaitGet", <<>>, <<"GET">>, <<>>, NoEntry, <<>>)

\* Variant: a failed read falls back to an empty leaderboard.
HandleGetFallback(resp, body, date, textOk) ==
    IF resp.outcome = "throw" THEN Answer(Unexpected)
    ELSE IF resp.doc.shape \in {"unparseable", "noRecord", "leadersNotArray"}
    THEN Answer(Unexpected)
    ELSE LET current == IF resp.doc.shape \in {"noLeaders", "none"} THEN <<>>
                        ELSE resp.doc.leaders
             score == Entry(body.name, body.shrimps, date)
         IN Outcome("awaitPut", <<>>, <<"PUT">>, current, score, Merge(current, score))

\* Variant: the return after the 500 of a failed read is missing, so the
\* handler goes on to parse the body it has already read and answers again
\* from the catch block.
HandleGetMissingReturn(resp, body, date, textOk) ==
    IF resp.outcome = "throw" THEN Answer(Unexpected)
    ELSE IF resp.outcome # "ok"
    THEN Outcome("done", IF textOk THEN <<ReadFailed, Unexpected>> ELSE <<Unexpected>>,
                 <<>>, <<>>, NoEntry, <<>>)
    ELSE IF resp.doc.shape \in {"unparseable", "noRecord", "leadersNotArray"}
    THEN Answer(Unexpected)
    ELSE LET current == IF resp.doc.shape = "noLeaders" THEN <<>> ELSE resp.doc.leaders
             score == Entry(body.name, body.shrimps, date)
         IN Outcome("awaitPut", <<>>, <<"PUT">>, current, score, Merge(current, score))

\* Variant: no default for a missing leaders field (push on undefined
\* throws and the catch block answers).
HandleGetNoDefault(resp, body, date, textOk) ==
    IF resp.outcome = "throw" THEN Answer(Unexpected)
    ELSE IF resp.outcome # "ok" THEN Answer(IF textOk THEN ReadFailed ELSE Unexpected)
    ELSE IF resp.doc.shape \in {"unparseable", "noRecord", "leadersNotArray", "noLeaders"}
    THEN Answer(Unexpected)
    ELSE LET current == resp.doc.leaders
             score == Entry(body.name, body.shrimps, date)
         IN Outcome("awaitPut", <<>>, <<"PUT">>, current, score, Merge(current, score))

\* Variant: a date supplied by the client is taken over into the entry.
HandleGetClientDate(resp, body, date, textOk) ==
    IF resp.outcome = "throw" THEN Answer(Unexpected)
    ELSE IF resp.outcome # "ok" THEN Answer(IF textOk THEN ReadFailed ELSE Unexpected)
    ELSE IF resp.doc.shape \in {"unparseable", "noRecord", "leadersNotArray"}
    THEN Answer(Unexpected)
    ELSE LET current == IF resp.doc.shape = "noLeaders" THEN <<>> ELSE resp.doc.leaders
             score == Entry(body.name, body.shrimps,
                            IF body.date.t = "number" THEN body.date.n ELSE date)
         IN Outcome("awaitPut", <<>>, <<"PUT">>, current, score, Merge(current, score))

\* Variant: the error text of the store is passed on to the caller.
HandleGetEchoText(resp, body, date, textOk) ==
    IF resp.outcome = "throw" THEN Answer(Unexpected)
    ELSE IF resp.outcome # "ok"
    THEN Answer(IF textOk THEN Response(500, resp.text) ELSE Unexpected)
    ELSE IF resp.doc.shape \in {"unparseable", "noRecord", "leadersNotArray"}
    THEN Answer(Unexpected)
    ELSE LET current == IF resp.doc.shape = "noLeaders" THEN <<>> ELSE resp.doc.leaders
             score == Entry(body.name, body.shrimps, date)
         IN Outcome("awaitPut", <<>>, <<"PUT">>, current, score, Merge(current, score))

\* From the return of the GET to the second await: status check (with the
\* read of the error text, which may fail), parse, default for a missing
\* leaders field, new entry dated by the clock, push/sort/slice, PUT issued.
\* A rejected fetch, a body that does not parse, a body without a record
\* and a leaders value without push all end in the catch block.
HandleGet(resp, body, date, textOk) ==
    IF resp.outcome = "throw" THEN Answer(Unexpected)
    ELSE IF resp.outcome # "ok" THEN Answer(IF textOk THEN ReadFailed ELSE Unexpected)
    ELSE IF resp.doc.shape \in {"unparseable", "noRecord", "leadersNotArray"}
    THEN Answer(Unexpected)
    ELSE LET current == IF resp.doc.shape = "noLeaders" THEN <<>> ELSE resp.doc.leaders
             score == Entry(body.name, body.shrimps, date)
         IN Outcome("awaitPut", <<>>, <<"PUT">>, current, score, Merge(current, score))

\* Variant: a failed write is tried again.
HandlePutRetry(resp, textOk) ==
    IF resp.outcome = "ok" THEN Answer(Success)
    ELSE Outcome("awaitPut", <<>>, <<"PUT">>, <<>>, NoEntry, <<>>)

\* Variant: the status of the PUT is not looked at.
HandlePutIgnoreStatus(resp, textOk) ==
    IF resp.outcome = "throw" THEN Answer(Unexpected) ELSE Answer(Success)

\* From the return of the PUT to the end: status check, 200.
HandlePut(resp, textOk) ==
    IF resp.outcome = "throw" THEN Answer(Unexpected)
    ELSE IF resp.outcome # "ok" THEN Answer(IF textOk THEN WriteFailed ELSE Unexpected)
    ELSE Answer(Success)

\* The document after the store accepted a PUT with the given leaders: the
\* body replaces the record (no versioning, no patch).
Replaced(doc, list) == LeadersDoc(list)

\* ---------------------------------------------------------------- actions
\* What new Date() may read, where the segment reads the clock: the clock
\* never runs backwards.
ClockReadings(reads) == IF reads THEN now..MaxClock ELSE {now}

\* Whether await response.text() succeeds, where the segment calls it (on
\* an error status only).
TextReads(resp) == IF resp.outcome = "status" THEN BOOLEAN ELSE {TRUE}

\* A request arrives and the handler runs up to its first await.  The
\* invocation takes the first free slot (slots name invocations, nothing
\* more).
Free(r) == pc[r] \in {"idle", "done"}

Request(r, cr) ==
    /\ Free(r)
    /\ \A q \in Slots : q < r => ~Free(q)
    /\ arrivals' = arrivals + 1
    /\ req' = [req EXCEPT ![r] = cr]
    /\ getResponse' = [getResponse EXCEPT ![r] = NoResult]
    /\ putResponse' = [putResponse EXCEPT ![r] = NoResult]
    /\ fetched' = [fetched EXCEPT ![r] = <<>>]
    /\ newScore' = [newScore EXCEPT ![r] = NoEntry]
    /\ leaders' = [leaders EXCEPT ![r] = <<>>]
    /\ served' = [served EXCEPT ![r] = <<>>]
    /\ LET o == Start(cr)
       IN /\ pc' = [pc EXCEPT ![r] = o.pc]
          /\ sent' = [sent EXCEPT ![r] = o.sent]
          /\ calls' = [calls EXCEPT ![r] = o.calls]
          /\ submitted' = IF o.pc = "awaitGet"
                          THEN submitted (+) SetToBag({cr.body.shrimps.n})
                          ELSE submitted
    /\ UNCHANGED <<store, now, secret, errorBody, storeFailed>>

\* The store answers the GET of slot r: with the document it holds, with
\* an error status, or the call fails on the network.
StoreGet(r) ==
    /\ pc[r] = "awaitGet"
    /\ \E outcome \in {"ok", "status", "throw"} :
          /\ getResponse' = [getResponse EXCEPT ![r] =
                Result(outcome, IF outcome = "ok" THEN store ELSE NoDoc, ErrorText(outcome))]
          /\ storeFailed' = (storeFailed \/ outcome # "ok")
    /\ served' = [served EXCEPT ![r] = Append(@, "GET")]
    /\ pc' = [pc EXCEPT ![r] = "gotGet"]
    /\ UNCHANGED <<store, now, arrivals, req, fetched, newScore, leaders, putResponse,
                   calls, sent, secret, errorBody, submitted>>

\* The handler resumes after the GET; new Date() reads the clock, which
\* never runs backwards.
OnGetResponse(r) ==
    /\ pc[r] = "gotGet"
    /\ \E date \in ClockReadings(getResponse[r].outcome = "ok"),
          textOk \in TextReads(getResponse[r]) :
          LET o == HandleGet(getResponse[r], req[r].body, date, textOk)
          IN /\ pc' = [pc EXCEPT ![r] = o.pc]
             /\ sent' = [sent EXCEPT ![r] = @ \o o.sent]
             /\ calls' = [calls EXCEPT ![r] = @ \o o.calls]
             /\ fetched' = [fetched EXCEPT ![r] = o.fetched]
             /\ newScore' = [newScore EXCEPT ![r] = o.newScore]
             /\ leaders' = [leaders EXCEPT ![r] = o.leaders]
             /\ now' = IF o.pc = "awaitPut" THEN date ELSE now
    /\ UNCHANGED <<store, arrivals, req, getResponse, putResponse, served, secret, errorBody,
                   submitted, storeFailed>>

\* The store answers the PUT of slot r: it replaces the document and
\* reports success, reports an error status without writing, or the call
\* fails on the network, before or after the document was replaced.
StorePut(r) ==
    /\ pc[r] = "awaitPut"
    /\ \E outcome \in {"ok", "status", "throw"}, applied \in BOOLEAN :
          /\ outcome = "ok" => applied
          /\ outcome = "status" => ~applied
          /\ putResponse' = [putResponse EXCEPT ![r] =
                Result(outcome, NoDoc, ErrorText(outcome))]
          /\ store' = IF applied THEN Replaced(store, leaders[r]) ELSE store
          /\ storeFailed' = (storeFailed \/ outcome # "ok")
    /\ served' = [served EXCEPT ![r] = Append(@, "PUT")]
    /\ pc' = [pc EXCEPT ![r] = "gotPut"]
    /\ UNCHANGED <<now, arrivals, req, getResponse, fetched, newScore, leaders, calls, sent,
                   secret, errorBody, submitted>>

\* The handler resumes after the PUT.
OnPutResponse(r) ==
    /\ pc[r] = "gotPut"
    /\ \E textOk \in TextReads(putResponse[r]) :
          LET o == HandlePut(putResponse[r], textOk)
          IN /\ pc' = [pc EXCEPT ![r] = o.pc]
             /\ sent' = [sent EXCEPT ![r] = @ \o o.sent]
             /\ calls' = [calls EXCEPT ![r] = @ \o o.calls]
    /\ UNCHANGED <<store, now, arrivals, req, getResponse, fetched, newScore, leaders,
                   putResponse, served, secret, errorBody, submitted, storeFailed>>

\* The steps of the invocations in the slots S, serving up to n requests
\* drawn from R.
Step(S, R, n) ==
    \/ \E r \in S, cr \in R : arrivals < n /\ Request(r, cr)
    \/ \E r \in S : StoreGet(r)
    \/ \E r \in S : OnGetResponse(r)
    \/ \E r \in S : StorePut(r)
    \/ \E r \in S : OnPutResponse(r)

\* Concurrent invocations.
Next == Step(Slots, ClientRequests, MaxArrivals)

Spec == Init /\ [][Next]_vars

\* A single invocation, every kind of payload, every kind of document.
NextOne == Step({1}, AnyRequests, 1)

SpecOne == InitOne /\ [][NextOne]_vars

\* Concurrent invocations whose requests carry the same name and shrimps,
\* with or without a date of the client's.
DatedRequests ==
    {Req("POST", Body(StrV(<<"A">>), NumV(2), Undefined)),
     Req("POST", Body(StrV(<<"A">>), NumV(2), NumV(9)))}

InitDated == InitWith({LeadersDoc(Board3)})

NextDated == Step(Slots, DatedRequests, MaxArrivals)

SpecDated == InitDated /\ [][NextDated]_vars

\* A single invocation whose store calls all return or fail in the end and
\* whose continuations the event loop runs once their promise has settled.
\* (At most one of the four steps of an invocation is enabled at a time, so
\* fairness of their disjunction is fairness of each.)
Resume(r) == StoreGet(r) \/ OnGetResponse(r) \/ StorePut(r) \/ OnPutResponse(r)

FairOne == SpecOne /\ WF_vars(Resume(1))

\* One invocation under any configured key and any error text of the store.
SecretKeys == {"key-1", "key-2"}
ErrorBodies == {"Bin not found", "Invalid X-Master-Key key-2"}
InitKeys == InitFrom(InitialDocs, SecretKeys, ErrorBodies)
SpecKeys == InitKeys /\ [][NextOne]_vars

\* Strictly sequential valid submissions, starting from an empty
\* leaderboard: a request arrives only when the one before it was answered.
SequentialRequests ==
    {Req("POST", Body(StrV(<<"A">>), NumV(k), Undefined)) : k \in 1..2}
InitSequential == InitWith({LeadersDoc(<<>>)})
NextSequential == Step({1}, SequentialRequests, MaxSubmissions)
SpecSequential == InitSequential /\ [][NextSequential]_vars

\* ================================================================ claims
Range(seq) == {seq[i] : i \in 1..Len(seq)}
Count(seq, e) == Cardinality({i \in 1..Len(seq) : seq[i] = e})
SortedDesc(seq) ==
    \A i, j \in 1..Len(seq) : i < j => seq[i].shrimps.n >= seq[j].shrimps.n
Received(r) == req[r] # NoReq
IssuedGet(r) == "GET" \in Range(calls[r])
IssuedPut(r) == "PUT" \in Range(calls[r])
AnsweredWith(r, status) == \E i \in 1..Len(sent[r]) : sent[r][i].status = status
MinShrimpsOf(seq) == seq[Len(seq)].shrimps.n

\* C1: every leaders array the handler puts in a PUT body has at most 10
\* entries and is sorted by shrimps, descending, whatever leaderboard the
\* invocation fetched and whatever was submitted before.
C1_WrittenSortedTop10 ==
    \A r \in Slots :
        IssuedPut(r) => Len(leaders[r]) <= TopN /\ SortedDesc(leaders[r])

\* C1 witness: one invocation fetched an unsorted leaderboard and wrote, and
\* another fetched a leaderboard that a submission had already extended and
\* wrote its own entry into it.
C1_Witness ==
    \E r \in Slots :
        /\ IssuedPut(r)
        /\ ~SortedDesc(fetched[r])
        /\ arrivals = MaxArrivals
        /\ \E q \in Slots :
              /\ IssuedPut(q)
              /\ Len(fetched[q]) >= 4
              /\ newScore[q] \in Range(leaders[q])

\* The payloads the specification calls valid: name a text of 1 to 20
\* characters, shrimps a number that is at least 1.
ValidPayload(body) ==
    /\ body.name.t = "string"
    /\ Len(body.name.s) >= 1
    /\ Len(body.name.s) <= MaxNameLen
    /\ body.shrimps.t = "number"
    /\ body.shrimps.n >= MinShrimps

\* C2 (as claimed): a POST with a body passes validation (the GET is
\* issued) exactly when its payload is valid, and is answered 400 otherwise.
C2_ValidationIff ==
    \A r \in Slots :
        (Received(r) /\ req[r].method = "POST" /\ req[r].body.present) =>
            /\ IssuedGet(r) <=> ValidPayload(req[r].body)
            /\ ~ValidPayload(req[r].body) => AnsweredWith(r, 400)

\* C3: an invocation that answered 400 issued no outbound call, and the
\* store served none for it.
C3_InvalidNoCalls ==
    \A r \in Slots :
        AnsweredWith(r, 400) => calls[r] = <<>> /\ served[r] = <<>> /\ pc[r] = "done"

\* C3 witness: the payload { name: "", shrimps: 2 } was answered 400.
C3_Witness ==
    \E r \in Slots :
        /\ AnsweredWith(r, 400)
        /\ req[r].body.name = StrV(<<>>)
        /\ req[r].body.shrimps = NumV(2)

\* C4: a request whose method is not POST is answered 405, and only 405,
\* and issues no outbound call, whatever its body.
C4_NonPostRejected ==
    \A r \in Slots :
        (Received(r) /\ req[r].method # "POST") =>
            /\ sent[r] = <<MethodNotAllowed>>
            /\ calls[r] = <<>>
            /\ served[r] = <<>>
            /\ pc[r] = "done"

\* C4 witness: a PUT request carrying a valid payload was answered 405.
C4_Witness ==
    \E r \in Slots :
        /\ req[r].method = "PUT"
        /\ ValidPayload(req[r].body)
        /\ AnsweredWith(r, 405)

\* C5: when the GET came back with an error status the invocation issues
\* no PUT, the store serves none for it, and its answer is 500.
C5_ReadFailureNoWrite ==
    \A r \in Slots :
        getResponse[r].outcome = "status" =>
            /\ calls[r] = <<"GET">>
            /\ served[r] = <<"GET">>
            /\ pc[r] \in {"gotGet", "done"}
            /\ pc[r] = "done" => Len(sent[r]) = 1 /\ sent[r][1].status = 500

\* C5 witness: a read failure was answered with the read-failure message.
C5_Witness ==
    \E r \in Slots :
        /\ getResponse[r].outcome = "status"
        /\ sent[r] = <<ReadFailed>>

Without(seq, k) == SubSeq(seq, 1, k - 1) \o SubSeq(seq, k + 1, Len(seq))
MinOf(seq) ==
    CHOOSE m \in {seq[i].shrimps.n : i \in 1..Len(seq)} :
        \A i \in 1..Len(seq) : m <= seq[i].shrimps.n

\* Two invocations that read the same document with room for both entries,
\* were both answered 200, submitted different entries, and the second of
\* which wrote the document the store now holds.
RacedPair(first, second) ==
    /\ first # second
    /\ sent[first] = <<Success>>
    /\ sent[second] = <<Success>>
    /\ getResponse[first].doc = getResponse[second].doc
    /\ fetched[first] = fetched[second]
    /\ Len(fetched[first]) < TopN - 1
    /\ newScore[first] # newScore[second]
    /\ store = LeadersDoc(leaders[second])

\* C6: when two invocations raced as above, the stored leaderboard is the
\* common base plus the later writer's entry only: the other entry, for
\* which there was room, is lost although its request was answered 200.
C6_LostUpdate ==
    \A first, second \in Slots :
        RacedPair(first, second) =>
            /\ Len(store.leaders) = Len(fetched[first]) + 1
            /\ Count(store.leaders, newScore[second])
                  = Count(fetched[first], newScore[second]) + 1
            /\ Count(store.leaders, newScore[first])
                  = Count(fetched[first], newScore[first])

\* C6 witness: such a pair exists, and the lost entry even had the higher
\* score and appears nowhere in the stored leaderboard.
C6_Witness ==
    \E first, second \in Slots :
        /\ RacedPair(first, second)
        /\ newScore[first].shrimps.n > newScore[second].shrimps.n
        /\ newScore[first] \notin Range(store.leaders)
        /\ newScore[second] \in Range(store.leaders)

\* C7: an invocation issues at most one GET and then at most one PUT; the
\* PUT only after its GET was served and returned success; and after a GET
\* or PUT that failed it issues no further call.
C7_OneGetOnePut ==
    \A r \in Slots :
        /\ calls[r] \in {<<>>, <<"GET">>, <<"GET", "PUT">>}
        /\ IssuedPut(r) =>
              /\ getResponse[r].outcome = "ok"
              /\ Len(served[r]) >= 1
              /\ served[r][1] = "GET"
        /\ getResponse[r].outcome \in {"status", "throw"} => calls[r] = <<"GET">>
        /\ putResponse[r].outcome \in {"status", "throw"} => calls[r] = <<"GET", "PUT">>

\* C7 witness: one invocation ended after its PUT failed and another after
\* its GET failed.
C7_Witness ==
    \E r, q \in Slots :
        /\ pc[r] = "done"
        /\ putResponse[r].outcome = "status"
        /\ pc[q] = "done"
        /\ getResponse[q].outcome = "throw"

\* C8: an invocation answers 200 only after the payload passed validation
\* and its GET and its PUT both returned success; after a PUT that returned
\* an error status it answers 500 and issues no further call.
C8_SuccessOnlyAfterBoth ==
    \A r \in Slots :
        /\ AnsweredWith(r, 200) =>
              /\ sent[r] = <<Success>>
              /\ req[r].method = "POST"
              /\ req[r].body.present
              /\ ~InvalidScore(req[r].body.name, req[r].body.shrimps)
              /\ getResponse[r].outcome = "ok"
              /\ putResponse[r].outcome = "ok"
              /\ calls[r] = <<"GET", "PUT">>
        /\ (putResponse[r].outcome = "status" /\ pc[r] = "done") =>
              /\ Len(sent[r]) = 1
              /\ sent[r][1].status = 500
              /\ calls[r] = <<"GET", "PUT">>
              /\ served[r] = <<"GET", "PUT">>

\* C8 witness: a write failure was answered with the write-failure message
\* while another invocation was answered 200.
C8_Witness ==
    \E r, q \in Slots :
        /\ putResponse[r].outcome = "status"
        /\ sent[r] = <<WriteFailed>>
        /\ sent[q] = <<Success>>

\* C9: when the fetched leaderboard has fewer than 10 entries, the written
\* one has one entry more: every fetched entry, as often as it was fetched,
\* and the new entry once more.
C9_UnderCapacityKeepsAll ==
    \A r \in Slots :
        (IssuedPut(r) /\ Len(fetched[r]) < TopN) =>
            /\ Len(leaders[r]) = Len(fetched[r]) + 1
            /\ \A e \in Range(fetched[r]) \cup Range(leaders[r]) \cup {newScore[r]} :
                  Count(leaders[r], e)
                     = Count(fetched[r], e) + (IF e = newScore[r] THEN 1 ELSE 0)

\* C9 witness: nine entries were fetched and the new entry, with a score
\* below all of them, made the tenth.
C9_Witness ==
    \E r \in Slots :
        /\ IssuedPut(r)
        /\ Len(fetched[r]) = TopN - 1
        /\ newScore[r].shrimps.n < MinOf(fetched[r])
        /\ leaders[r][TopN] = newScore[r]

\* C10: when the fetched leaderboard has exactly 10 sorted entries and the
\* new score is above its minimum, the written leaderboard has 10 entries,
\* is the fetched one with its last entry (which carries the minimum score)
\* removed and the new entry inserted, the new entry first when its score
\* exceeds all others; and the answer is 200 once the PUT has succeeded.
C10_FullBoardEvictsMinimum ==
    \A r \in Slots :
        (/\ IssuedPut(r)
         /\ Len(fetched[r]) = TopN
         /\ SortedDesc(fetched[r])
         /\ newScore[r].shrimps.n > MinOf(fetched[r])) =>
            /\ Len(leaders[r]) = TopN
            /\ \E k \in 1..TopN :
                  /\ leaders[r][k] = newScore[r]
                  /\ Without(leaders[r], k) = SubSeq(fetched[r], 1, TopN - 1)
            /\ fetched[r][TopN].shrimps.n = MinOf(fetched[r])
            /\ newScore[r].shrimps.n > fetched[r][1].shrimps.n => leaders[r][1] = newScore[r]
            /\ (pc[r] = "done" /\ putResponse[r].outcome = "ok") => sent[r] = <<Success>>

\* C10 witness: ten entries with several at the minimum were fetched, the
\* new score exceeds them all, and the request was answered 200.
C10_Witness ==
    \E r \in Slots :
        /\ Len(fetched[r]) = TopN
        /\ fetched[r][TopN - 1].shrimps.n = MinOf(fetched[r])
        /\ newScore[r].shrimps.n > fetched[r][1].shrimps.n
        /\ leaders[r][1] = newScore[r]
        /\ sent[r] = <<Success>>

HandlerStatuses == {200, 400, 405, 500}

\* C11: an invocation never sends more than one response, every response
\* has status 200, 400, 405 or 500, an invocation has ended exactly when
\* its response is sent, and (the store answering every call in the end)
\* every request received is answered: no failure leaves the handler
\* without a response.
C11_ExactlyOneResponse ==
    /\ [](\A r \in Slots :
             /\ Len(sent[r]) <= 1
             /\ \A i \in 1..Len(sent[r]) : sent[r][i].status \in HandlerStatuses
             /\ Received(r) => (pc[r] = "done" <=> Len(sent[r]) = 1))
    /\ \A r \in Slots : Received(r) ~> (pc[r] = "done" /\ Len(sent[r]) = 1)

\* C11 witness: the store returned a body that does not parse and the
\* request was answered from the catch block.
C11_Witness ==
    \E r \in Slots :
        /\ getResponse[r].outcome = "ok"
        /\ getResponse[r].doc.shape = "unparseable"
        /\ pc[r] = "done"
        /\ sent[r] = <<Unexpected>>

\* The GET of the invocation succeeded and its document has a record
\* without a leaders field.
FetchedNoLeaders(r) ==
    getResponse[r].outcome = "ok" /\ getResponse[r].doc.shape = "noLeaders"

\* C12: when the fetched document has no leaders field, the handler goes on
\* with an empty leaderboard: it issues the PUT, the written leaderboard is
\* the new entry alone, and once the PUT has succeeded the answer is 200 and
\* the store holds that one entry.
C12_MissingLeadersIsEmpty ==
    \A r \in Slots :
        (FetchedNoLeaders(r) /\ pc[r] # "gotGet") =>
            /\ IssuedPut(r)
            /\ fetched[r] = <<>>
            /\ newScore[r].name = req[r].body.name
            /\ newScore[r].shrimps = req[r].body.shrimps
            /\ leaders[r] = <<newScore[r]>>
            /\ (pc[r] = "done" /\ putResponse[r].outcome = "ok") =>
                  /\ sent[r] = <<Success>>
                  /\ store = LeadersDoc(<<newScore[r]>>)

\* C12 witness: such a request was answered 200.
C12_Witness ==
    \E r \in Slots :
        /\ FetchedNoLeaders(r)
        /\ sent[r] = <<Success>>
        /\ Len(store.leaders) = 1

\* C13: the new entry carries the request's name and shrimps and a date
\* that is a reading of the server clock, whatever date the client sent;
\* and two invocations whose requests agree in name and shrimps, that
\* fetched the same leaderboard and read the same server time, put the same
\* leaderboard in their PUT, even if the dates their clients sent differ.
C13_DateFromServerClock ==
    /\ \A r \in Slots :
          IssuedPut(r) =>
              /\ newScore[r].name = req[r].body.name
              /\ newScore[r].shrimps = req[r].body.shrimps
              /\ newScore[r].date \in 0..now
              /\ leaders[r] = Merge(fetched[r], newScore[r])
    /\ \A r, q \in Slots :
          (/\ IssuedPut(r)
           /\ IssuedPut(q)
           /\ req[r].body.name = req[q].body.name
           /\ req[r].body.shrimps = req[q].body.shrimps
           /\ fetched[r] = fetched[q]
           /\ newScore[r].date = newScore[q].date) =>
              leaders[r] = leaders[q]

\* C13 witness: two invocations whose requests differ in the client's date
\* only fetched the same leaderboard and wrote the same one.
C13_Witness ==
    \E r, q \in Slots :
        /\ IssuedPut(r)
        /\ IssuedPut(q)
        /\ req[r].body.date = Undefined
        /\ req[q].body.date = NumV(9)
        /\ req[r].body.name = req[q].body.name
        /\ req[r].body.shrimps = req[q].body.shrimps
        /\ fetched[r] = fetched[q]
        /\ leaders[r] = leaders[q]

\* C14: the response never carries the text of a store response or the
\* secret key.  Whatever the key and whatever the store's error text, each
\* response is one of six fixed status/message pairs, and which one is
\* settled by the kind of outcome alone: 405 for a method other than POST,
\* the read-failure message only after a GET answered with an error
\* status, the write-failure message only after a PUT answered with an
\* error status, the success message only after a PUT that succeeded.
FixedResponses ==
    {MethodNotAllowed, InvalidScoreData, ReadFailed, WriteFailed, Unexpected, Success}
C14_ResponseIndependentOfUpstream ==
    \A r \in Slots : \A i \in 1..Len(sent[r]) :
        LET m == sent[r][i] IN
        /\ m \in FixedResponses
        /\ m.body \notin {secret, errorBody, getResponse[r].text, putResponse[r].text}
        /\ (m = MethodNotAllowed) <=> (req[r].method # "POST")
        /\ (m = ReadFailed) => getResponse[r].outcome = "status"
        /\ (m = WriteFailed) => putResponse[r].outcome = "status"
        /\ (m = Success) <=> (putResponse[r].outcome = "ok")

\* A GET answered with an error status whose text names the configured key,
\* and the caller was sent the fixed read-failure response.
C14_Witness ==
    \E r \in Slots :
        /\ secret = "key-2"
        /\ getResponse[r].outcome = "status"
        /\ getResponse[r].text = "Invalid X-Master-Key key-2"
        /\ sent[r] = <<ReadFailed>>

\* The entries of seq with v shrimps, in the order seq has them.
WithShrimps(seq, v) ==
    LET Scored(e) == e.shrimps.n = v IN SelectSeq(seq, Scored)
IsPrefix(a, b) == Len(a) <= Len(b) /\ a = SubSeq(b, 1, Len(a))

\* C15: ties are broken by insertion order.  For every score, the written
\* entries with that score are, in this order, the fetched entries with
\* that score in their fetched order and then the new entry if it has that
\* score (cut off where the list of 10 ends).  So when 10 sorted entries
\* were fetched and the new score is not above their minimum, the written
\* leaderboard is the fetched one, without the new entry, and the answer is
\* 200 once the PUT has succeeded.
C15_TiesByInsertionOrder ==
    \A r \in Slots :
        IssuedPut(r) =>
            /\ \A v \in {e.shrimps.n : e \in Range(Append(fetched[r], newScore[r]))} :
                  IsPrefix(WithShrimps(leaders[r], v),
                           WithShrimps(Append(fetched[r], newScore[r]), v))
            /\ (/\ Len(fetched[r]) = TopN
                /\ SortedDesc(fetched[r])
                /\ newScore[r].shrimps.n <= MinOf(fetched[r])) =>
                   /\ leaders[r] = fetched[r]
                   /\ (pc[r] = "done" /\ putResponse[r].outcome = "ok") =>
                          sent[r] = <<Success>>

\* C15 witness: 10 sorted entries were fetched, the new score equals their
\* minimum, the fetched leaderboard was written back and the answer is 200.
C15_Witness ==
    \E r \in Slots :
        /\ IssuedPut(r)
        /\ Len(fetched[r]) = TopN
        /\ SortedDesc(fetched[r])
        /\ newScore[r].shrimps.n = MinOf(fetched[r])
        /\ leaders[r] = fetched[r]
        /\ sent[r] = <<Success>>

\* The bag of the scores of a list of entries.
RECURSIVE ShrimpsBag(_)
ShrimpsBag(seq) ==
    IF seq = <<>> THEN EmptyBag
    ELSE SetToBag({Head(seq).shrimps.n}) (+) ShrimpsBag(Tail(seq))

\* The n largest members of a bag of numbers (all of them if it has fewer).
RECURSIVE Largest(_, _)
Largest(bag, n) ==
    IF n = 0 \/ BagToSet(bag) = {} THEN EmptyBag
    ELSE LET top == CHOOSE m \in BagToSet(bag) : \A k \in BagToSet(bag) : k <= m
         IN SetToBag({top}) (+) Largest(bag (-) SetToBag({top}), n - 1)

Quiescent == \A r \in Slots : pc[r] \in {"idle", "done"}

\* C16: when submissions are handled one after the other, starting from an
\* empty leaderboard, and every call to the store has succeeded, then after
\* each submission the scores on the stored leaderboard are, as a multiset,
\* the 10 largest of all scores submitted.
C16_SequentialTopTen ==
    (Quiescent /\ ~storeFailed) =>
        /\ store.shape = "leaders"
        /\ ShrimpsBag(store.leaders) = Largest(submitted, TopN)

\* C16 witness: more than 10 scores were submitted one after the other, all
\* calls succeeded, and the stored leaderboard has 10 entries and lacks
\* some submitted score altogether.
C16_Witness ==
    /\ Quiescent
    /\ ~storeFailed
    /\ BagCardinality(submitted) > TopN
    /\ Len(store.leaders) = TopN
    /\ BagToSet(submitted) # BagToSet(ShrimpsBag(store.leaders))

\* The fetched entries of which the written list has fewer copies.
Dropped(r) == {e \in Range(fetched[r]) : Count(leaders[r], e) < Count(fetched[r], e)}

\* C17: the only change a write makes is to insert the new entry and to
\* truncate.  Every written entry is a fetched entry, unchanged and no more
\* often than it was fetched, or the one new entry; and when at most 10
\* entries were fetched, at most one of them is missing from what is
\* written.
C17_InsertAndTruncateOnly ==
    \A r \in Slots :
        IssuedPut(r) =>
            /\ \A e \in Range(leaders[r]) :
                  /\ e \in Range(fetched[r]) \cup {newScore[r]}
                  /\ Count(leaders[r], e)
                        <= Count(fetched[r], e) + (IF e = newScore[r] THEN 1 ELSE 0)
            /\ Len(fetched[r]) <= TopN =>
                  /\ Cardinality(Dropped(r)) <= 1
                  /\ \A e \in Dropped(r) : Count(leaders[r], e) = Count(fetched[r], e) - 1
                  /\ Len(leaders[r]) >= Len(fetched[r])

\* C17 witness: 10 entries were fetched, exactly one of them is missing
\* from the written list, and the new entry is on it.
C17_Witness ==
    \E r \in Slots :
        /\ IssuedPut(r)
        /\ Len(fetched[r]) = TopN
        /\ Cardinality(Dropped(r)) = 1
        /\ Count(leaders[r], newScore[r]) = 1
        /\ newScore[r] \notin Range(fetched[r])

====
